---- MODULE Spec2Model ----
(***************************************************************************)
(* Model of the useSafeSearchParams hook (src/src/hooks/                   *)
(* useSafeSearchParams.tsx) and of the demo page that uses it              *)
(* (src/src/app/page.tsx).                                                 *)
(*                                                                         *)
(* A string is a sequence of one-character strings, so that JSON text,     *)
(* the application/x-www-form-urlencoded serializer and parser, Number()   *)
(* and the URL split at "?" are computed character by character.           *)
(* A query (URLSearchParams) is a sequence of records [k, v] of strings.   *)
(* A JavaScript value is a record [t, n, s]: t is "number" (n its integer  *)
(* value), "inf", "ninf", "nan", "string" (s its text) or "undefined".     *)
(***************************************************************************)
EXTENDS Integers, Sequences, FiniteSets

VARIABLES
    pathname,       \* usePathname(): the host's current pathname
    searchParams,   \* useSearchParams(): the host's current query
    schema,         \* the schema the component passes to the hook
    memo,           \* the useMemo cell of safeSearchParams
    callback,       \* the useCallback cell of createSafeURL
    phase,          \* "pending" (navigated, not rendered), "rendered", "error"
    ret,            \* what the last render of the hook returned
    call            \* the most recent invocation of createSafeURL

vars == <<pathname, searchParams, schema, memo, callback, phase, ret, call>>

(***************************************************************************)
(* Bound of the model: incrementCount is not pressed once the count has    *)
(* reached MaxCount.                                                       *)
(***************************************************************************)
MaxCount == 3

----------------------------------------------------------------------------
(* JavaScript values *)

Num(n) == [t |-> "number", n |-> n, s |-> <<>>]
NaN == [t |-> "nan", n |-> 0, s |-> <<>>]
PosInf == [t |-> "inf", n |-> 0, s |-> <<>>]
NegInf == [t |-> "ninf", n |-> 0, s |-> <<>>]
StrV(s) == [t |-> "string", n |-> 0, s |-> s]
Undefined == [t |-> "undefined", n |-> 0, s |-> <<>>]

Digits == <<"0", "1", "2", "3", "4", "5", "6", "7", "8", "9">>

DigitSet == {Digits[i] : i \in DOMAIN Digits}

DigitVal(c) == (CHOOSE i \in DOMAIN Digits : Digits[i] = c) - 1

S_count == <<"c", "o", "u", "n", "t">>
S_hello == <<"h", "e", "l", "l", "o">>
S_world == <<"w", "o", "r", "l", "d">>
S_x == <<"x">>
S_Infinity == <<"I", "n", "f", "i", "n", "i", "t", "y">>
S_null == <<"n", "u", "l", "l">>
S_undefined == <<"u", "n", "d", "e", "f", "i", "n", "e", "d">>
S_abc == <<"a", "b", "c">>

(* Number::toString for an integer in the safe range: decimal digits. *)
RECURSIVE NatToStr(_)
NatToStr(n) ==
    IF n < 10 THEN <<Digits[n + 1]>>
    ELSE NatToStr(n \div 10) \o <<Digits[(n % 10) + 1]>>

NumberToString(n) == IF n < 0 THEN <<"-">> \o NatToStr(-n) ELSE NatToStr(n)

(* JSON.stringify's QuoteJSONString: the text between quotes, with the     *)
(* quote and the backslash escaped.                                        *)
RECURSIVE QuoteChars(_)
QuoteChars(s) ==
    IF s = <<>> THEN <<>>
    ELSE (IF Head(s) \in {"\"", "\\"} THEN <<"\\", Head(s)>> ELSE <<Head(s)>>)
         \o QuoteChars(Tail(s))

(* JSON.stringify(value): a finite number is its decimal text, a           *)
(* non-finite number is the text null, a string is quoted, undefined is    *)
(* not serialized (the result is the value undefined).                     *)
JSONStringify(v) ==
    CASE v.t = "number" -> StrV(NumberToString(v.n))
      [] v.t \in {"inf", "ninf", "nan"} -> StrV(S_null)
      [] v.t = "string" -> StrV(<<"\"">> \o QuoteChars(v.s) \o <<"\"">>)
      [] OTHER -> Undefined

(* ToString, as URLSearchParams.set applies it to its value argument. *)
ToString(v) ==
    CASE v.t = "string" -> v.s
      [] v.t = "number" -> NumberToString(v.n)
      [] v.t = "inf" -> S_Infinity
      [] v.t = "ninf" -> <<"-">> \o S_Infinity
      [] v.t = "nan" -> <<"N", "a", "N">>
      [] OTHER -> S_undefined

(* StringToNumber, on the strings of the model: the text is trimmed; the   *)
(* empty text is 0; an optionally signed run of digits is its value;       *)
(* Infinity, optionally signed, is an infinity; anything else is NaN.      *)
(* (No string of the model holds a fraction, an exponent or a radix        *)
(* prefix.)                                                                *)
RECURSIVE TrimLeft(_)
TrimLeft(s) == IF s # <<>> /\ Head(s) = " " THEN TrimLeft(Tail(s)) ELSE s

RECURSIVE TrimRight(_)
TrimRight(s) ==
    IF s # <<>> /\ s[Len(s)] = " " THEN TrimRight(SubSeq(s, 1, Len(s) - 1)) ELSE s

Trim(s) == TrimRight(TrimLeft(s))

IsDigits(s) == s # <<>> /\ \A i \in DOMAIN s : s[i] \in DigitSet

RECURSIVE DigitsValue(_)
DigitsValue(s) ==
    IF s = <<>> THEN 0
    ELSE 10 * DigitsValue(SubSeq(s, 1, Len(s) - 1)) + DigitVal(s[Len(s)])

StringToNumber(str) ==
    LET s == Trim(str)
        signed == s # <<>> /\ Head(s) \in {"+", "-"}
        body == IF signed THEN Tail(s) ELSE s
        neg == signed /\ Head(s) = "-"
    IN  CASE s = <<>> -> Num(0)
          [] IsDigits(body) -> Num(IF neg THEN -DigitsValue(body) ELSE DigitsValue(body))
          [] body = S_Infinity -> IF neg THEN NegInf ELSE PosInf
          [] OTHER -> NaN

(* Number(input), the coercion of z.coerce.number(). *)
ToNumber(v) ==
    CASE v.t = "string" -> StringToNumber(v.s)
      [] v.t = "undefined" -> NaN
      [] OTHER -> v

(* a >= m for a number a that is not NaN and an integer m *)
JSGreaterEq(a, m) ==
    CASE a.t = "number" -> a.n >= m
      [] a.t = "inf" -> TRUE
      [] OTHER -> FALSE

(* count + 1 *)
JSAddOne(a) == IF a.t = "number" THEN Num(a.n + 1) ELSE a

----------------------------------------------------------------------------
(* URLSearchParams and the URL string *)

Letters ==
    {"a", "b", "c", "d", "e", "f", "h", "i", "l", "n", "o", "r", "t", "u", "w",
     "x", "y", "I", "N"}

(* The bytes the application/x-www-form-urlencoded serializer leaves as    *)
(* they are.                                                               *)
Unreserved == DigitSet \cup Letters \cup {"*", "-", ".", "_"}

(* <<character, first hex digit, second hex digit>> of the other           *)
(* characters of the model.                                                *)
PercentTable ==
    << <<"\"", "2", "2">>, <<"+", "2", "B">>, <<"&", "2", "6">>,
       <<"=", "3", "D">>, <<"%", "2", "5">>, <<"?", "3", "F">>,
       <<"\\", "5", "C">> >>

PercentEncodeChar(c) ==
    LET i == CHOOSE j \in DOMAIN PercentTable : PercentTable[j][1] = c
    IN  <<"%", PercentTable[i][2], PercentTable[i][3]>>

(* Variant: names and values are written as they are, without escapes. *)
UrlEncode_Raw(s) == s

(* urlencoded serializer of one name or value *)
RECURSIVE UrlEncode(_)
UrlEncode(s) ==
    IF s = <<>> THEN <<>>
    ELSE (CASE Head(s) = " " -> <<"+">>
            [] Head(s) \in Unreserved -> <<Head(s)>>
            [] OTHER -> PercentEncodeChar(Head(s)))
         \o UrlEncode(Tail(s))

(* urlencoded parser of one name or value: "+" is a space, %XX is the      *)
(* byte XX, a "%" that starts no escape stays.                             *)
RECURSIVE UrlDecode(_)
UrlDecode(s) ==
    IF s = <<>> THEN <<>>
    ELSE IF Head(s) = "+" THEN <<" ">> \o UrlDecode(Tail(s))
    ELSE IF /\ Head(s) = "%"
            /\ Len(s) >= 3
            /\ \E j \in DOMAIN PercentTable :
                   PercentTable[j][2] = s[2] /\ PercentTable[j][3] = s[3]
         THEN LET i == CHOOSE j \in DOMAIN PercentTable :
                           PercentTable[j][2] = s[2] /\ PercentTable[j][3] = s[3]
              IN  <<PercentTable[i][1]>> \o UrlDecode(SubSeq(s, 4, Len(s)))
    ELSE <<Head(s)>> \o UrlDecode(Tail(s))

(* index of the first c in s, 0 when there is none *)
IndexOf(s, c) ==
    IF \E i \in DOMAIN s : s[i] = c
    THEN CHOOSE i \in DOMAIN s : s[i] = c /\ \A j \in 1..(i - 1) : s[j] # c
    ELSE 0

RECURSIVE SplitOn(_, _)
SplitOn(s, c) ==
    LET i == IndexOf(s, c)
    IN  IF i = 0 THEN <<s>>
        ELSE <<SubSeq(s, 1, i - 1)>> \o SplitOn(SubSeq(s, i + 1, Len(s)), c)

(* URLSearchParams.prototype.toString *)
RECURSIVE URLSearchParamsToString(_)
URLSearchParamsToString(list) ==
    IF list = <<>> THEN <<>>
    ELSE UrlEncode(Head(list).k) \o <<"=">> \o UrlEncode(Head(list).v)
         \o (IF Tail(list) = <<>> THEN <<>>
             ELSE <<"&">> \o URLSearchParamsToString(Tail(list)))

ParsePair(piece) ==
    LET i == IndexOf(piece, "=")
    IN  IF i = 0 THEN [k |-> UrlDecode(piece), v |-> <<>>]
        ELSE [k |-> UrlDecode(SubSeq(piece, 1, i - 1)),
              v |-> UrlDecode(SubSeq(piece, i + 1, Len(piece)))]

RECURSIVE ParsePieces(_)
ParsePieces(pieces) ==
    IF pieces = <<>> THEN <<>>
    ELSE (IF Head(pieces) = <<>> THEN <<>> ELSE <<ParsePair(Head(pieces))>>)
         \o ParsePieces(Tail(pieces))

(* new URLSearchParams(queryString) *)
ParseQueryString(qs) == ParsePieces(SplitOn(qs, "&"))

(* The host's reading of a URL string it is told to navigate to: the       *)
(* pathname is what precedes the first "?", the query what follows it.     *)
ParseURL(url) ==
    LET i == IndexOf(url, "?")
    IN  IF i = 0 THEN [pathname |-> url, searchParams |-> <<>>]
        ELSE [pathname |-> SubSeq(url, 1, i - 1),
              searchParams |-> ParseQueryString(SubSeq(url, i + 1, Len(url)))]

(* new URLSearchParams(searchParams): a list of its own with the same      *)
(* pairs.                                                                  *)
URLSearchParamsCopy(list) == [i \in DOMAIN list |-> list[i]]

(* Variant: append(name, value) in the place of set. *)
URLSearchParamsSet_Append(list, name, value) ==
    Append(list, [k |-> name, v |-> value])

(* Variant: delete(name), then append(name, value). *)
URLSearchParamsSet_DeleteAppend(list, name, value) ==
    LET Other(e) == e.k # name
    IN  Append(SelectSeq(list, Other), [k |-> name, v |-> value])

(* URLSearchParams.prototype.set(name, value): the first pair named name   *)
(* takes the value and the later ones are removed; with none, the pair is  *)
(* appended.                                                               *)
URLSearchParamsSet(list, name, value) ==
    IF \E i \in DOMAIN list : list[i].k = name
    THEN LET first == CHOOSE i \in DOMAIN list :
                          list[i].k = name /\ \A j \in 1..(i - 1) : list[j].k # name
             Other(e) == e.k # name
         IN  SubSeq(list, 1, first - 1) \o <<[k |-> name, v |-> value]>>
             \o SelectSeq(SubSeq(list, first + 1, Len(list)), Other)
    ELSE Append(list, [k |-> name, v |-> value])

(* for (const key in newParams) updatedParams.set(key, JSON.stringify(...)) *)
RECURSIVE SetAll(_, _)
SetAll(updatedParams, newParams) ==
    IF newParams = <<>> THEN updatedParams
    ELSE SetAll(URLSearchParamsSet(updatedParams, Head(newParams).k,
                                   ToString(JSONStringify(Head(newParams).v))),
                Tail(newParams))

(* Variant: no "?" when the query is empty. *)
CreateSafeURL_BarePath(fn, newParams) ==
    LET updatedParams == SetAll(URLSearchParamsCopy(fn.searchParams), newParams)
    IN  IF updatedParams = <<>> THEN fn.pathname
        ELSE fn.pathname \o <<"?">> \o URLSearchParamsToString(updatedParams)

(* The body of createSafeURL, over the pathname and the searchParams its   *)
(* closure holds.                                                          *)
CreateSafeURL(fn, newParams) ==
    LET updatedParams == SetAll(URLSearchParamsCopy(fn.searchParams), newParams)
    IN  fn.pathname \o <<"?">> \o URLSearchParamsToString(updatedParams)

(* Variant: the sets go to the host's object, not to a copy. *)
SearchParamsAfterCall_InPlace(fn, newParams) == SetAll(fn.searchParams, newParams)

(* What the call leaves in the searchParams object the host handed to the  *)
(* hook: the sets go to the copy, so the object keeps its pairs.           *)
SearchParamsAfterCall(fn, newParams) == fn.searchParams

----------------------------------------------------------------------------
(* The schema *)

ParseOk(v) == [ok |-> TRUE, value |-> v]
ParseFail == [ok |-> FALSE, value |-> Undefined]

(* const fallback = (value) => z.any().transform(() => value) *)
fallback(value, input) == ParseOk(value)

(* A field is [key, hasMin, min, hasFallback, fallback]:                   *)
(* z.coerce.number(), then .min(min) when hasMin, then .or(fallback(..))   *)
(* when hasFallback.                                                       *)
CountField(hasMin, hasFallback) ==
    [key |-> S_count, hasMin |-> hasMin, min |-> 0,
     hasFallback |-> hasFallback, fallback |-> Num(0)]

(* z.object({ count: z.coerce.number().min(0).or(fallback(0)) }) *)
searchParamsSchema == <<CountField(TRUE, TRUE)>>

(* z.object({ count: z.coerce.number() }) *)
ReadmeSchema == <<CountField(FALSE, FALSE)>>

(* z.object({ count: z.coerce.number().or(fallback(0)) }) *)
ReadmeFallbackSchema == <<CountField(FALSE, TRUE)>>

(* z.coerce.number(): Number(input), rejected when it is NaN *)
ZodCoerceNumber(input) ==
    LET v == ToNumber(input)
    IN  IF v.t = "nan" THEN ParseFail ELSE ParseOk(v)

(* Variant: the minimum is not checked. *)
ZodMin_Unchecked(f, v) == TRUE

(* .min(m) *)
ZodMin(f, v) == f.hasMin => JSGreaterEq(v, f.min)

(* Variant: a failure is replaced by the default, declared or not. *)
ZodOr_AlwaysDefault(first, f, input) ==
    IF first.ok THEN first ELSE fallback(f.fallback, input)

(* first.or(second): the first option's result when it succeeds, else the  *)
(* second option's.                                                        *)
ZodOr(first, f, input) ==
    IF first.ok THEN first
    ELSE IF f.hasFallback THEN fallback(f.fallback, input)
    ELSE first

ZodField(f, input) ==
    LET coerced == ZodCoerceNumber(input)
        first == IF coerced.ok /\ ~ZodMin(f, coerced.value) THEN ParseFail
                 ELSE coerced
    IN  ZodOr(first, f, input)

(* Variant: the first pair of a name gives its value, as get(name) does. *)
ObjectFromEntries_FirstWins(entries) ==
    [name \in {entries[i].k : i \in DOMAIN entries} |->
        LET first == CHOOSE i \in DOMAIN entries :
                         entries[i].k = name /\ \A j \in 1..(i - 1) : entries[j].k # name
        IN  entries[first].v]

(* Object.fromEntries(searchParams): one property per name, the last pair  *)
(* of a name giving its value.                                             *)
ObjectFromEntries(entries) ==
    [name \in {entries[i].k : i \in DOMAIN entries} |->
        LET last == CHOOSE i \in DOMAIN entries :
                        entries[i].k = name
                        /\ \A j \in (i + 1)..Len(entries) : entries[j].k # name
        IN  entries[last].v]

GetProperty(obj, name) == IF name \in DOMAIN obj THEN StrV(obj[name]) ELSE Undefined

(* schema.parse(data) of a z.object: every field of the shape is parsed    *)
(* from the property of its name, unknown properties are dropped, and one  *)
(* failing field makes parse throw.                                        *)
ZodObjectParse(sch, data) ==
    LET results == [i \in DOMAIN sch |-> ZodField(sch[i], GetProperty(data, sch[i].key))]
    IN  IF \A i \in DOMAIN sch : results[i].ok
        THEN ParseOk([i \in DOMAIN sch |-> [k |-> sch[i].key, v |-> results[i].value]])
        ELSE [ok |-> FALSE, value |-> <<>>]

(* schema.parse(Object.fromEntries(searchParams)) *)
Evaluate(sch, sp) == ZodObjectParse(sch, ObjectFromEntries(sp))

(* params.count *)
Field(state, name) ==
    LET i == CHOOSE j \in DOMAIN state : state[j].k = name
    IN  state[i].v

----------------------------------------------------------------------------
(* The hook *)

(* A closure of createSafeURL is the pathname and the searchParams it      *)
(* captured.  The host hands the hook a new searchParams object exactly    *)
(* when the query changes, so the identity of that object, which the       *)
(* dependency arrays compare, is represented by the query it holds.        *)
Closure(p, sp) == [pathname |-> p, searchParams |-> sp]
NoClosure == Closure(<<>>, <<>>)

EmptyMemo == [has |-> FALSE, deps |-> <<>>, value |-> <<>>]
EmptyCallback == [has |-> FALSE, deps |-> <<>>, fn |-> NoClosure]
NoReturn == [ok |-> FALSE, safeSearchParams |-> <<>>, createSafeURL |-> NoClosure]
NoCall ==
    [made |-> FALSE, newParams |-> <<>>, pathname |-> <<>>, searchParams |-> <<>>,
     url |-> <<>>]

(* Variant: the dependency array of useMemo without searchParams. *)
MemoDeps_SchemaOnly(sch, p, sp) == <<sch>>

(* [schema, searchParams] *)
MemoDeps(sch, p, sp) == <<sch, sp>>

(* [pathname, searchParams] *)
CallbackDeps(sch, p, sp) == <<p, sp>>

(* useMemo: the stored value when the dependencies are the stored ones,    *)
(* else a new evaluation.  A parse that throws stores nothing.             *)
UseMemo(cell, deps, sch, sp) ==
    IF cell.has /\ cell.deps = deps THEN [ok |-> TRUE, cell |-> cell]
    ELSE LET parsed == Evaluate(sch, sp)
         IN  IF parsed.ok
             THEN [ok |-> TRUE,
                   cell |-> [has |-> TRUE, deps |-> deps, value |-> parsed.value]]
             ELSE [ok |-> FALSE, cell |-> EmptyMemo]

(* useCallback: the stored closure when the dependencies are the stored    *)
(* ones, else the closure of this render.                                  *)
UseCallback(cell, deps, p, sp) ==
    IF cell.has /\ cell.deps = deps THEN cell
    ELSE [has |-> TRUE, deps |-> deps, fn |-> Closure(p, sp)]

(* One render of the component: useSafeSearchParams(schema) returns        *)
(* [safeSearchParams, createSafeURL], or schema.parse throws and the       *)
(* component is replaced by the error boundary (its hook cells are gone).  *)
Render ==
    LET m == UseMemo(memo, MemoDeps(schema, pathname, searchParams), schema, searchParams)
        c == UseCallback(callback, CallbackDeps(schema, pathname, searchParams),
                         pathname, searchParams)
    IN  /\ IF m.ok
           THEN /\ memo' = m.cell
                /\ callback' = c
                /\ ret' = [ok |-> TRUE, safeSearchParams |-> m.cell.value,
                           createSafeURL |-> c.fn]
                /\ phase' = "rendered"
           ELSE /\ memo' = EmptyMemo
                /\ callback' = EmptyCallback
                /\ ret' = NoReturn
                /\ phase' = "error"
        /\ UNCHANGED <<pathname, searchParams, schema, call>>

(* The host navigates to some URL from outside the component (the address  *)
(* bar, the history); the host renders the component after every           *)
(* navigation.  The record of the last call is not kept across it.         *)
Navigate(p, sp) ==
    /\ phase # "pending"
    /\ pathname' = p
    /\ searchParams' = sp
    /\ phase' = "pending"
    /\ call' = NoCall
    /\ UNCHANGED <<schema, memo, callback, ret>>

(* The component calls the createSafeURL of its last render, as the href   *)
(* of the Link does.                                                       *)
CallCreateSafeURL(newParams) ==
    /\ phase = "rendered"
    /\ call' = [made |-> TRUE, newParams |-> newParams, pathname |-> pathname,
                searchParams |-> searchParams,
                url |-> CreateSafeURL(ret.createSafeURL, newParams)]
    /\ searchParams' = SearchParamsAfterCall(Closure(pathname, searchParams), newParams)
    /\ UNCHANGED <<pathname, schema, memo, callback, phase, ret>>

(* router.replace(url), or a click on a Link of that href *)
RouterReplace(url) ==
    /\ pathname' = ParseURL(url).pathname
    /\ searchParams' = ParseURL(url).searchParams
    /\ phase' = "pending"

(* The URL of the last call is navigated to. *)
FollowURL ==
    /\ phase = "rendered"
    /\ call.made
    /\ RouterReplace(call.url)
    /\ UNCHANGED <<schema, memo, callback, ret, call>>

(* const url = createSafeURL({ count: count + 1 }); router.replace(url) *)
incrementCount ==
    LET count == Field(ret.safeSearchParams, S_count)
        newParams == <<[k |-> S_count, v |-> JSAddOne(count)]>>
        url == CreateSafeURL(ret.createSafeURL, newParams)
    IN  /\ phase = "rendered"
        /\ count.t = "number" => count.n < MaxCount
        /\ call' = [made |-> TRUE, newParams |-> newParams, pathname |-> pathname,
                    searchParams |-> searchParams, url |-> url]
        /\ RouterReplace(url)
        /\ UNCHANGED <<schema, memo, callback, ret>>

----------------------------------------------------------------------------
(* The inputs of the model *)

Pair(k, v) == [k |-> k, v |-> v]

Paths == {<<"/">>, <<"/", "a">>}

Schemas == {searchParamsSchema, ReadmeSchema, ReadmeFallbackSchema}

(* The queries the host is navigated to from outside. *)
RawQueries ==
    { <<>>,
      <<Pair(S_count, <<"2">>)>>,
      <<Pair(S_count, <<"-", "3">>)>>,
      <<Pair(S_count, <<>>)>>,
      <<Pair(S_count, S_abc)>>,
      <<Pair(S_count, S_Infinity)>>,
      <<Pair(S_hello, S_world)>>,
      <<Pair(S_hello, S_world), Pair(S_count, <<"1">>)>>,
      <<Pair(S_count, <<"1">>), Pair(S_count, <<"-", "3">>)>>,
      <<Pair(S_count, <<"-", "3">>), Pair(S_hello, <<"a", " ", "&", "b">>),
        Pair(S_count, <<"2">>)>>,
      <<Pair(S_x, <<"1">>), Pair(S_count, <<"1">>), Pair(S_x, <<"=">>)>> }

(* The partial updates createSafeURL is called with: the pairs of the      *)
(* object in the order for-in enumerates them.                             *)
NewParamsSet ==
    { <<>>,
      <<Pair(S_count, Num(1))>>,
      <<Pair(S_count, PosInf)>>,
      <<Pair(S_count, Undefined)>>,
      <<Pair(S_hello, StrV(<<"x", "\"">>)), Pair(S_count, Num(2))>>,
      <<Pair(S_x, Num(0))>> }

Init ==
    /\ pathname \in Paths
    /\ searchParams \in RawQueries
    /\ schema \in Schemas
    /\ memo = EmptyMemo
    /\ callback = EmptyCallback
    /\ phase = "pending"
    /\ ret = NoReturn
    /\ call = NoCall

Next ==
    \/ Render
    \/ \E p \in Paths, sp \in RawQueries : Navigate(p, sp)
    \/ \E newParams \in NewParamsSet : CallCreateSafeURL(newParams)
    \/ FollowURL
    \/ incrementCount

Spec == Init /\ [][Next]_vars

----------------------------------------------------------------------------
(* Vocabulary of the properties *)

(* the names a partial update sets *)
UpdatedKeys(newParams) == {newParams[i].k : i \in DOMAIN newParams}

KeysOf(list) == {list[i].k : i \in DOMAIN list}

KeySeq(list) == [i \in DOMAIN list |-> list[i].k]

(* the query of the URL the last call returned, as the host reads it *)
ReturnedQuery == ParseURL(call.url).searchParams

(* the pairs of a query whose name the update does not set *)
RECURSIVE Unrelated(_, _)
Unrelated(list, keys) ==
    IF list = <<>> THEN <<>>
    ELSE (IF Head(list).k \in keys THEN <<>> ELSE <<Head(list)>>)
         \o Unrelated(Tail(list), keys)

(* the positions of name in a query *)
Occurrences(list, name) == {i \in DOMAIN list : list[i].k = name}

(* the value the schema reads for a name: that of its last pair *)
RawPresent(sp, name) == Occurrences(sp, name) # {}

RawValue(sp, name) ==
    sp[CHOOSE i \in Occurrences(sp, name) : \A j \in Occurrences(sp, name) : j <= i].v

HasFallbacks(sch) == \A i \in DOMAIN sch : sch[i].hasFallback

IsNumber(v) == v.t \in {"number", "inf", "ninf"}

----------------------------------------------------------------------------
(* C1: with a schema whose every field declares a fallback, no render      *)
(* raises a validation error, and every field of the validated state is a  *)
(* number that satisfies the field's minimum (count >= 0 for the schema    *)
(* of the demo page), whatever query the host was navigated to.            *)
C1_StateSatisfiesSchema ==
    HasFallbacks(schema) =>
        /\ phase # "error"
        /\ phase = "rendered" =>
              /\ ret.ok
              /\ Len(ret.safeSearchParams) = Len(schema)
              /\ \A i \in DOMAIN schema :
                    LET v == ret.safeSearchParams[i].v
                    IN  /\ ret.safeSearchParams[i].k = schema[i].key
                        /\ IsNumber(v)
                        /\ schema[i].hasMin =>
                              \/ v.t = "inf"
                              \/ v.t = "number" /\ v.n >= schema[i].min

(* The demo schema is rendered on a query that createSafeURL built and     *)
(* whose count is not a number (the text null).                            *)
C1_Witness ==
    /\ schema = searchParamsSchema
    /\ phase = "rendered"
    /\ call.made
    /\ searchParams = ReturnedQuery
    /\ RawPresent(searchParams, S_count)
    /\ RawValue(searchParams, S_count) = S_null

(* C2: accept-or-fallback per field.  When the field's raw value is        *)
(* present and its coercion is a number that meets the minimum, the state  *)
(* holds the coerced value; when it is absent or fails, the state holds    *)
(* the declared fallback; the other names of the query play no part.       *)
C2_AcceptOrFallback ==
    /\ (HasFallbacks(schema) /\ phase = "rendered") =>
          /\ ret.ok
          /\ \A i \in DOMAIN schema :
                LET f == schema[i]
                    present == RawPresent(searchParams, f.key)
                    coerced == IF present
                               THEN StringToNumber(RawValue(searchParams, f.key))
                               ELSE NaN
                    accepted == /\ present
                                /\ IsNumber(coerced)
                                /\ f.hasMin =>
                                      \/ coerced.t = "inf"
                                      \/ coerced.t = "number" /\ coerced.n >= f.min
                IN  Field(ret.safeSearchParams, f.key)
                        = IF accepted THEN coerced ELSE f.fallback
          /\ LET OfSchema(e) == \E i \in DOMAIN schema : schema[i].key = e.k
             IN  ret.safeSearchParams
                    = Evaluate(schema, SelectSeq(searchParams, OfSchema)).value
    /\ Evaluate(searchParamsSchema, <<[k |-> S_count, v |-> <<"5">>]>>).value
          = <<[k |-> S_count, v |-> Num(5)]>>
    /\ Evaluate(searchParamsSchema, <<[k |-> S_count, v |-> <<"-", "3">>]>>).value
          = <<[k |-> S_count, v |-> Num(0)]>>
    /\ Evaluate(searchParamsSchema, <<>>).value = <<[k |-> S_count, v |-> Num(0)]>>

(* The demo schema is rendered on a query with other names in which count  *)
(* occurs twice, first negative and last valid.                            *)
C2_Witness ==
    /\ schema = searchParamsSchema
    /\ phase = "rendered"
    /\ Cardinality(Occurrences(searchParams, S_count)) = 2
    /\ KeysOf(searchParams) # {S_count}
    /\ Field(ret.safeSearchParams, S_count) = Num(2)

(* C3: the pathname of the returned URL is the current pathname, and the   *)
(* pairs whose name the update does not set are in the returned query as   *)
(* they were: the same values, as many times, schema fields or not.        *)
C3_UnrelatedPreserved ==
    call.made =>
        /\ ParseURL(call.url).pathname = call.pathname
        /\ Unrelated(ReturnedQuery, UpdatedKeys(call.newParams))
              = Unrelated(call.searchParams, UpdatedKeys(call.newParams))

(* A call that sets count on a query that holds, twice, a name that is no  *)
(* field of the schema, one of its values being "=".                       *)
C3_Witness ==
    /\ call.made
    /\ S_count \in UpdatedKeys(call.newParams)
    /\ Cardinality(Occurrences(call.searchParams, S_x)) = 2
    /\ \E i \in DOMAIN call.searchParams : call.searchParams[i].v = <<"=">>

(* C4: every name of the update is in the returned query exactly once,     *)
(* with the serialized new value, however many times it was in the         *)
(* current query.                                                          *)
C4_UpdateOverwrite ==
    call.made =>
        \A i \in DOMAIN call.newParams :
            LET name == call.newParams[i].k
                v == call.newParams[i].v
                at == Occurrences(ReturnedQuery, name)
                text == CASE v.t = "number" -> NumberToString(v.n)
                          [] v.t = "string" -> <<"\"">> \o QuoteChars(v.s) \o <<"\"">>
                          [] v.t = "undefined" -> S_undefined
                          [] OTHER -> S_null
            IN  /\ Cardinality(at) = 1
                /\ \A j \in at : ReturnedQuery[j].v = text

(* A call that sets count on a query in which count occurs twice. *)
C4_Witness ==
    /\ call.made
    /\ S_count \in UpdatedKeys(call.newParams)
    /\ Cardinality(Occurrences(call.searchParams, S_count)) = 2

----------------------------------------------------------------------------
(* the query with, of each name of keys, only its first pair *)
RECURSIVE FirstOnly(_, _, _)
FirstOnly(list, keys, seen) ==
    IF list = <<>> THEN <<>>
    ELSE (IF Head(list).k \in keys /\ Head(list).k \in seen THEN <<>>
          ELSE <<Head(list)>>)
         \o FirstOnly(Tail(list), keys, seen \cup {Head(list).k})

(* the names of the update that the query does not hold, in the update's   *)
(* order                                                                   *)
RECURSIVE NewKeys(_, _)
NewKeys(newParams, old) ==
    IF newParams = <<>> THEN <<>>
    ELSE (IF Head(newParams).k \in KeysOf(old) THEN <<>> ELSE <<Head(newParams).k>>)
         \o NewKeys(Tail(newParams), old)

(* C7: the names of the returned query are those of the current query in   *)
(* their order, an updated name standing where it first stood, followed    *)
(* by the updated names the current query did not hold.                    *)
C7_KeyOrder ==
    call.made =>
        KeySeq(ReturnedQuery)
            = KeySeq(FirstOnly(call.searchParams, UpdatedKeys(call.newParams), {}))
              \o NewKeys(call.newParams, call.searchParams)

(* A call that sets a name the query holds before a name it does not set,  *)
(* and a name the query does not hold.                                     *)
C7_Witness ==
    /\ call.made
    /\ \E i, j \in DOMAIN call.searchParams :
          /\ i < j
          /\ call.searchParams[i].k \in UpdatedKeys(call.newParams)
          /\ call.searchParams[j].k \notin UpdatedKeys(call.newParams)
    /\ NewKeys(call.newParams, call.searchParams) # <<>>

(* C8, as stated: with an empty current query and an empty update the      *)
(* returned URL is the bare path, without the "?" suffix.                  *)
C8_Original ==
    (call.made /\ call.searchParams = <<>> /\ call.newParams = <<>>) =>
        call.url = call.pathname

(* C8, amended: the returned URL is always the path, "?" and the           *)
(* serialized query; with an empty current query and an empty update it    *)
(* is the path followed by a bare "?".                                     *)
C8_AlwaysQuestionMark ==
    call.made =>
        /\ Len(call.url) > Len(call.pathname)
        /\ SubSeq(call.url, 1, Len(call.pathname)) = call.pathname
        /\ call.url[Len(call.pathname) + 1] = "?"
        /\ SubSeq(call.url, Len(call.pathname) + 2, Len(call.url))
              = URLSearchParamsToString(ReturnedQuery)
        /\ (call.searchParams = <<>> /\ call.newParams = <<>>) =>
              call.url = call.pathname \o <<"?">>

(* A call with an empty update on an empty query. *)
C8_Witness == call.made /\ call.searchParams = <<>> /\ call.newParams = <<>>

(* C9, as stated: a press of the increment button on the demo schema, the  *)
(* validated count c being a number >= 0, leads to a query whose           *)
(* evaluation holds the count c + 1 that was written, the other            *)
(* parameters being what they were.                                        *)
C9_RoundTrip ==
    [][(incrementCount /\ schema = searchParamsSchema) =>
          LET n == call'.newParams[1].v
              after == Evaluate(schema, searchParams')
          IN  /\ after.ok
              /\ Field(after.value, S_count) = n
              /\ Unrelated(searchParams', {S_count}) = Unrelated(searchParams, {S_count})]_vars

(* C10: in every render, the memoized state is what a new evaluation of    *)
(* the schema over the current query gives, and the memoized               *)
(* createSafeURL returns what one built on the current pathname and        *)
(* query returns.                                                          *)
C10_MemoFresh ==
    phase = "rendered" =>
        /\ ret.ok
        /\ Evaluate(schema, searchParams).ok
        /\ ret.safeSearchParams = Evaluate(schema, searchParams).value
        /\ \A newParams \in NewParamsSet :
              CreateSafeURL(ret.createSafeURL, newParams)
                  = CreateSafeURL(Closure(pathname, searchParams), newParams)

(* A render after a navigation to the URL of a call that changed both the  *)
(* count and the rest of the query: both cells were filled before.         *)
C10_Witness ==
    /\ phase = "rendered"
    /\ call.made
    /\ searchParams = ReturnedQuery
    /\ searchParams # call.searchParams
    /\ memo.has /\ callback.has
    /\ Field(ret.safeSearchParams, S_count) = Num(2)

====
